---- MODULE Spec2Model ----
(***************************************************************************)
(* A model of boost::singularity (src/singularity.hpp) and of the managed  *)
(* type Horizon of its unit tests (src/singularity_unittests.cpp).         *)
(*                                                                         *)
(* The statics of the header are the state: singularity_state<T>::created, *)
(* singularity_instance<T, M>::instance_ptr and multi_threaded<T>::lockable.*)
(* Every thread runs calls of create() and destroy(); a call is a frame on  *)
(* the thread's stack whose pc walks through the statements of the call.   *)
(***************************************************************************)
EXTENDS Integers, Sequences, FiniteSets, TLC

\* ------------------------------------------------------------------ bounds
NumThreads == 2
MaxAddr == 2

\* --------------------------------------------------------------- constants
NULL == 0
NoOwner == 0
OwnEvent == 0
DefaultInt == 0

Threads == 1..NumThreads
Addr == 1..MaxAddr
Types == {"Horizon", "Event"}
Policies == {"single_threaded", "multi_threaded"}
\* The values the tests pass: create(3), create(5), and one local Event.
IntArgs == {3, 5}
Events == {1}

VARIABLES created, instance_ptr, lockable, heap, stack, result

vars == <<created, instance_ptr, lockable, heap, stack, result>>

\* ------------------------------------------------------- constructor args
IntArg(i) == [type |-> "int", val |-> i]
PtrArg(e) == [type |-> "Event*", val |-> e]
RefArg(e) == [type |-> "Event&", val |-> e]

\* The argument lists the constructors of a managed type accept.
ArgLists(T) ==
    IF T = "Horizon"
    THEN {<<>>}
         \cup {<<IntArg(i)>> : i \in IntArgs}
         \cup {<<PtrArg(e)>> : e \in Events}
         \cup {<<RefArg(e)>> : e \in Events}
         \cup {<<IntArg(i), PtrArg(e), RefArg(e)>> : i \in IntArgs, e \in Events}
    ELSE {<<>>}

\* The template arguments A0..An-1 of an argument list.
SigOf(args) == [i \in 1..Len(args) |-> args[i].type]

Sigs(T) == {SigOf(a) : a \in ArgLists(T)}

\* ------------------------------------------------------------------- heap
FreeCell == [type |-> "free", mInt |-> 0, mEventPtr |-> 0, mEventRef |-> 0]

\* Horizon's five constructors, chosen by overload resolution on the
\* argument types; Event has its default constructor only.
HorizonCtor(a) ==
    IF SigOf(a) = <<"int">>
    THEN [type |-> "Horizon", mInt |-> a[1].val, mEventPtr |-> OwnEvent, mEventRef |-> OwnEvent]
    ELSE IF SigOf(a) = <<"Event*">>
    THEN [type |-> "Horizon", mInt |-> DefaultInt, mEventPtr |-> a[1].val, mEventRef |-> OwnEvent]
    ELSE IF SigOf(a) = <<"Event&">>
    THEN [type |-> "Horizon", mInt |-> DefaultInt, mEventPtr |-> OwnEvent, mEventRef |-> a[1].val]
    ELSE IF SigOf(a) = <<"int", "Event*", "Event&">>
    THEN [type |-> "Horizon", mInt |-> a[1].val, mEventPtr |-> a[2].val, mEventRef |-> a[3].val]
    ELSE [type |-> "Horizon", mInt |-> DefaultInt, mEventPtr |-> OwnEvent, mEventRef |-> OwnEvent]

EventCtor(a) == [type |-> "Event", mInt |-> 0, mEventPtr |-> 0, mEventRef |-> 0]

Construct(T, a) == IF T = "Horizon" THEN HorizonCtor(a) ELSE EventCtor(a)

\* A forwarding that passes the arguments in reverse order.
ForwardArgsReversed(args) == [i \in 1..Len(args) |-> args[Len(args) + 1 - i]]

\* A forwarding that drops the last argument.
ForwardArgsButLast(args) == [i \in 1..(Len(args) - 1) |-> args[i]]

\* BOOST_PP_REPEAT(n, BOOST_PP_DEF_ARG, _): arg0, ..., argn-1.
ForwardArgs(args) == [i \in 1..Len(args) |-> args[i]]

Live(T) == {a \in Addr : heap[a].type = T}

\* ----------------------------------------------------------------- frames
Frame(op, T, M, sig, args) ==
    [op |-> op, T |-> T, M |-> M, sig |-> sig, args |-> args,
     pc |-> "guard", exc |-> "none", ref |-> NULL]

Running(t) == stack[t] # <<>>

Top(t) == stack[t][Len(stack[t])]

SetTop(t, f) == [stack EXCEPT ![t] = [@ EXCEPT ![Len(@)] = f]]

At(t, op, pc) == Running(t) /\ Top(t).op = op /\ Top(t).pc = pc

Goto(t, pc) == stack' = SetTop(t, [Top(t) EXCEPT !.pc = pc])

Throw(t, e) == stack' = SetTop(t, [Top(t) EXCEPT !.pc = "unguard", !.exc = e])

\* What the caller of a finished call holds: the reference returned or the
\* exception thrown.
NoResult == [outcome |-> "none", ref |-> NULL]

Init ==
    /\ created = [T \in Types |-> FALSE]
    /\ instance_ptr = [T \in Types |-> [M \in Policies |-> NULL]]
    /\ lockable = [T \in Types |-> NoOwner]
    /\ heap = [a \in Addr |-> FreeCell]
    /\ stack = [t \in Threads |-> <<>>]
    /\ result = [t \in Threads |-> NoResult]

\* ------------------------------------------------------------ the callers
\* A thread calls singularity<T, M, A...>::create(args).
CallCreate(t, T, M, args) ==
    /\ ~Running(t)
    /\ stack' = [stack EXCEPT ![t] = <<Frame("create", T, M, SigOf(args), args)>>]
    /\ result' = [result EXCEPT ![t] = NoResult]
    /\ UNCHANGED <<created, instance_ptr, lockable, heap>>

\* A thread calls singularity<T, M, A...>::destroy().
CallDestroy(t, T, M, sig) ==
    /\ ~Running(t)
    /\ stack' = [stack EXCEPT ![t] = <<Frame("destroy", T, M, sig, <<>>)>>]
    /\ result' = [result EXCEPT ![t] = NoResult]
    /\ UNCHANGED <<created, instance_ptr, lockable, heap>>

\* ----------------------------------------------------------- the policies
\* A guard whose lock() does not wait for the mutex to be free.
PolicyLockNoWait(t, T, M) ==
    IF M = "multi_threaded"
    THEN lockable' = [lockable EXCEPT ![T] = t]
    ELSE UNCHANGED lockable

\* A guard whose mutex is shared by every managed type.
PolicyLockShared(t, T, M) ==
    IF M = "multi_threaded"
    THEN /\ \A U \in Types : lockable[U] = NoOwner
         /\ lockable' = [lockable EXCEPT ![T] = t]
    ELSE UNCHANGED lockable

\* A guard that locks the mutex of T under every policy.
PolicyLockEveryPolicy(t, T, M) ==
    /\ lockable[T] = NoOwner
    /\ lockable' = [lockable EXCEPT ![T] = t]

\* A guard over a recursive mutex: the owner may lock again.
PolicyLockRecursive(t, T, M) ==
    IF M = "multi_threaded"
    THEN /\ lockable[T] \in {NoOwner, t}
         /\ lockable' = [lockable EXCEPT ![T] = t]
    ELSE UNCHANGED lockable

\* M<T> guard: single_threaded() does nothing, multi_threaded() blocks in
\* lockable.lock() until the mutex of T is free.
PolicyLock(t, T, M) ==
    IF M = "multi_threaded"
    THEN /\ lockable[T] = NoOwner
         /\ lockable' = [lockable EXCEPT ![T] = t]
    ELSE UNCHANGED lockable

\* ~M<T>: ~single_threaded() does nothing, ~multi_threaded() unlocks.
PolicyUnlock(t, T, M) ==
    IF M = "multi_threaded"
    THEN lockable' = [lockable EXCEPT ![T] = NoOwner]
    ELSE UNCHANGED lockable

\* A guard that is declared but never constructed: no lock is taken.
GuardNotConstructed(t) ==
    /\ Running(t) /\ Top(t).pc = "guard"
    /\ Goto(t, IF Top(t).op = "create" THEN "detect" ELSE "check_created")
    /\ UNCHANGED <<created, instance_ptr, lockable, heap, result>>

\* M<T> guard; at the head of create() and of destroy().
GuardAcquire(t) ==
    /\ Running(t) /\ Top(t).pc = "guard"
    /\ PolicyLock(t, Top(t).T, Top(t).M)
    /\ Goto(t, IF Top(t).op = "create" THEN "detect" ELSE "check_created")
    /\ UNCHANGED <<created, instance_ptr, heap, result>>

\* An unlock written at the end of the body instead of in a destructor: an
\* exception leaves the mutex locked.
GuardReleaseOnReturnOnly(t) ==
    /\ Running(t) /\ Top(t).pc = "unguard"
    /\ IF Top(t).exc = "none"
       THEN PolicyUnlock(t, Top(t).T, Top(t).M)
       ELSE UNCHANGED lockable
    /\ stack' = [stack EXCEPT ![t] = SubSeq(@, 1, Len(@) - 1)]
    /\ result' = [result EXCEPT ![t] =
                    [outcome |-> IF Top(t).exc = "none" THEN "ok" ELSE Top(t).exc,
                     ref |-> IF Top(t).exc = "none" THEN Top(t).ref ELSE NULL]]
    /\ UNCHANGED <<created, instance_ptr, heap>>

\* The guard leaves scope, on return and on exception alike; the call ends
\* and its caller sees the reference returned or the exception thrown.
GuardRelease(t) ==
    /\ Running(t) /\ Top(t).pc = "unguard"
    /\ PolicyUnlock(t, Top(t).T, Top(t).M)
    /\ stack' = [stack EXCEPT ![t] = SubSeq(@, 1, Len(@) - 1)]
    /\ result' = [result EXCEPT ![t] =
                    [outcome |-> IF Top(t).exc = "none" THEN "ok" ELSE Top(t).exc,
                     ref |-> IF Top(t).exc = "none" THEN Top(t).ref ELSE NULL]]
    /\ UNCHANGED <<created, instance_ptr, heap>>

\* ----------------------------------------------------------------- create
\* A detection that looks at the slot of the call's own policy instead of
\* the flag of the type.
DetectBySlot(t) ==
    /\ At(t, "create", "detect")
    /\ IF instance_ptr[Top(t).T][Top(t).M] # NULL
       THEN Throw(t, "singularity_already_created")
       ELSE Goto(t, "new")
    /\ UNCHANGED <<created, instance_ptr, lockable, heap, result>>

\* A create() without the detection.
DetectMissing(t) ==
    /\ At(t, "create", "detect")
    /\ Goto(t, "new")
    /\ UNCHANGED <<created, instance_ptr, lockable, heap, result>>

\* A detection that sets the flag in the same statement that tests it.
DetectAndSet(t) ==
    /\ At(t, "create", "detect")
    /\ IF created[Top(t).T] # FALSE
       THEN Throw(t, "singularity_already_created") /\ UNCHANGED created
       ELSE Goto(t, "new") /\ created' = [created EXCEPT ![Top(t).T] = TRUE]
    /\ UNCHANGED <<instance_ptr, lockable, heap, result>>

\* detect_already_created();
DetectAlreadyCreated(t) ==
    /\ At(t, "create", "detect")
    /\ IF created[Top(t).T] # FALSE
       THEN Throw(t, "singularity_already_created")
       ELSE Goto(t, "new")
    /\ UNCHANGED <<created, instance_ptr, lockable, heap, result>>

\* new T(arg0, ..., argn-1): the allocator picks a free cell and T's
\* constructor runs on it.
NewInstance(t) ==
    /\ At(t, "create", "new")
    /\ \E a \in Addr :
        /\ heap[a] = FreeCell
        /\ heap' = [heap EXCEPT ![a] = Construct(Top(t).T, ForwardArgs(Top(t).args))]
        /\ stack' = SetTop(t, [Top(t) EXCEPT !.pc = "store", !.ref = a])
    /\ UNCHANGED <<created, instance_ptr, lockable, result>>

\* A create() that puts the address of the storage into the slot before
\* the constructor runs on it, and the constructor throws.
ConstructorThrowsAfterStore(t) ==
    /\ At(t, "create", "new")
    /\ \E a \in Addr :
        /\ heap[a] = FreeCell
        /\ instance_ptr' = [instance_ptr EXCEPT ![Top(t).T][Top(t).M] = a]
    /\ Throw(t, "constructor_exception")
    /\ UNCHANGED <<created, lockable, heap, result>>

\* new T(arg0, ..., argn-1) throws: operator new fails, or T's constructor
\* throws and the new-expression gives the storage back. The assignment
\* to instance_ptr and the statements after it are not executed; the
\* exception leaves create() through the destructor of the guard.
ConstructorThrows(t) ==
    /\ At(t, "create", "new")
    /\ Throw(t, "constructor_exception")
    /\ UNCHANGED <<created, instance_ptr, lockable, heap, result>>

\* singularity_instance<T, M>::instance_ptr = <the new T>;
StoreInstance(t) ==
    /\ At(t, "create", "store")
    /\ instance_ptr' = [instance_ptr EXCEPT ![Top(t).T][Top(t).M] = Top(t).ref]
    /\ Goto(t, "set_created")
    /\ UNCHANGED <<created, lockable, heap, result>>

\* A create() that stores the instance and leaves the flag false.
SetCreatedMissing(t) ==
    /\ At(t, "create", "set_created")
    /\ Goto(t, "return")
    /\ UNCHANGED <<created, instance_ptr, lockable, heap, result>>

\* singularity_state<T>::created = true;
SetCreated(t) ==
    /\ At(t, "create", "set_created")
    /\ created' = [created EXCEPT ![Top(t).T] = TRUE]
    /\ Goto(t, "return")
    /\ UNCHANGED <<instance_ptr, lockable, heap, result>>

\* return *singularity_instance<T, M>::instance_ptr;
ReturnInstance(t) ==
    /\ At(t, "create", "return")
    /\ stack' = SetTop(t, [Top(t) EXCEPT !.pc = "unguard",
                                         !.ref = instance_ptr[Top(t).T][Top(t).M]])
    /\ UNCHANGED <<created, instance_ptr, lockable, heap, result>>

\* ---------------------------------------------------------------- destroy
\* A destroy() without the test of the flag.
CheckCreatedMissing(t) ==
    /\ At(t, "destroy", "check_created")
    /\ Goto(t, "check_instance")
    /\ UNCHANGED <<created, instance_ptr, lockable, heap, result>>

\* if (singularity_state<T>::created != true) throw ...already_destroyed
CheckCreated(t) ==
    /\ At(t, "destroy", "check_created")
    /\ IF created[Top(t).T] # TRUE
       THEN Throw(t, "singularity_already_destroyed")
       ELSE Goto(t, "check_instance")
    /\ UNCHANGED <<created, instance_ptr, lockable, heap, result>>

\* A destroy() without the test of the slot.
CheckInstanceMissing(t) ==
    /\ At(t, "destroy", "check_instance")
    /\ Goto(t, "delete")
    /\ UNCHANGED <<created, instance_ptr, lockable, heap, result>>

\* A destroy() that accepts the instance only through the signature that
\* constructed it.
CheckInstanceBySignature(t) ==
    /\ At(t, "destroy", "check_instance")
    /\ LET p == instance_ptr[Top(t).T][Top(t).M]
       IN IF p = NULL \/ \A a \in ArgLists(Top(t).T) :
                            heap[p] = Construct(Top(t).T, a) => SigOf(a) # Top(t).sig
          THEN Throw(t, "singularity_destroy_on_incorrect_threading")
          ELSE Goto(t, "delete")
    /\ UNCHANGED <<created, instance_ptr, lockable, heap, result>>

\* if (singularity_instance<T, M>::instance_ptr == NULL) throw ...
CheckInstance(t) ==
    /\ At(t, "destroy", "check_instance")
    /\ IF instance_ptr[Top(t).T][Top(t).M] = NULL
       THEN Throw(t, "singularity_destroy_on_incorrect_threading")
       ELSE Goto(t, "delete")
    /\ UNCHANGED <<created, instance_ptr, lockable, heap, result>>

\* delete singularity_instance<T, M>::instance_ptr; (deleting a null
\* pointer does nothing)
DeleteInstance(t) ==
    /\ At(t, "destroy", "delete")
    /\ LET p == instance_ptr[Top(t).T][Top(t).M]
       IN heap' = IF p = NULL THEN heap ELSE [heap EXCEPT ![p] = FreeCell]
    /\ Goto(t, "clear_instance")
    /\ UNCHANGED <<created, instance_ptr, lockable, result>>

\* A destroy() that deletes the instance and leaves its address in the slot.
ClearInstanceMissing(t) ==
    /\ At(t, "destroy", "clear_instance")
    /\ Goto(t, "clear_created")
    /\ UNCHANGED <<created, instance_ptr, lockable, heap, result>>

\* singularity_instance<T, M>::instance_ptr = NULL;
ClearInstance(t) ==
    /\ At(t, "destroy", "clear_instance")
    /\ instance_ptr' = [instance_ptr EXCEPT ![Top(t).T][Top(t).M] = NULL]
    /\ Goto(t, "clear_created")
    /\ UNCHANGED <<created, lockable, heap, result>>

\* A destroy() that leaves the flag set.
ClearCreatedMissing(t) ==
    /\ At(t, "destroy", "clear_created")
    /\ Goto(t, "unguard")
    /\ UNCHANGED <<created, instance_ptr, lockable, heap, result>>

\* singularity_state<T>::created = false;
ClearCreated(t) ==
    /\ At(t, "destroy", "clear_created")
    /\ created' = [created EXCEPT ![Top(t).T] = FALSE]
    /\ Goto(t, "unguard")
    /\ UNCHANGED <<instance_ptr, lockable, heap, result>>

\* One statement of the body of create().
CreateStep(t) ==
    \/ DetectAlreadyCreated(t)
    \/ NewInstance(t)
    \/ StoreInstance(t)
    \/ SetCreated(t)
    \/ ReturnInstance(t)

\* One statement of the body of destroy().
DestroyStep(t) ==
    \/ CheckCreated(t)
    \/ CheckInstance(t)
    \/ DeleteInstance(t)
    \/ ClearInstance(t)
    \/ ClearCreated(t)

\* One statement of the call a thread is in.
Step(t) == GuardAcquire(t) \/ CreateStep(t) \/ DestroyStep(t) \/ GuardRelease(t)

Quiescent == \A t \in Threads : ~Running(t)

\* ------------------------------------------------- non-overlapping calls
\* Calls of any thread, policy and signature for Horizon, one at a time: a
\* call starts only when no call is in progress.
SeqCreate(t) ==
    /\ Quiescent
    /\ \E M \in Policies, args \in ArgLists("Horizon") : CallCreate(t, "Horizon", M, args)

SeqDestroy(t) ==
    /\ Quiescent
    /\ \E M \in Policies, sig \in Sigs("Horizon") : CallDestroy(t, "Horizon", M, sig)

NextSeq == \E t \in Threads : SeqCreate(t) \/ SeqDestroy(t) \/ Step(t)

SpecSeq == Init /\ [][NextSeq]_vars

\* --------------------------------------- concurrent multi_threaded callers
\* Every thread calls create() and destroy() for Horizon under the
\* multi_threaded policy, through two signatures, whenever it likes.
MTArgLists == {<<>>, <<IntArg(3)>>}

MTCreate(t) == \E args \in MTArgLists : CallCreate(t, "Horizon", "multi_threaded", args)

MTDestroy(t) ==
    \E args \in MTArgLists : CallDestroy(t, "Horizon", "multi_threaded", SigOf(args))

NextMT == \E t \in Threads : MTCreate(t) \/ MTDestroy(t) \/ Step(t)

SpecMT == Init /\ [][NextMT]_vars

\* SpecMT under fair scheduling. A thread that is in a call and not waiting
\* goes on running: its next statement is eventually executed. A thread
\* waiting in lockable.lock() gets the mutex if it is free again and again
\* (fair lock acquisition). Nothing obliges a thread to start a call.
FairMT ==
    \A t \in Threads :
        /\ WF_vars(CreateStep(t) \/ DestroyStep(t) \/ GuardRelease(t))
        /\ SF_vars(GuardAcquire(t))

SpecMTFair == SpecMT /\ FairMT

\* ------------------------------------------------------- the create() race
\* Every thread calls create() for Horizon once under multi_threaded, all
\* starting from the initial state, in any interleaving.
RaceCreate(t) ==
    /\ result[t] = NoResult
    /\ \E args \in ArgLists("Horizon") : CallCreate(t, "Horizon", "multi_threaded", args)

NextRace ==
    \E t \in Threads : RaceCreate(t) \/ GuardAcquire(t) \/ CreateStep(t) \/ GuardRelease(t)

SpecRace == Init /\ [][NextRace]_vars

\* ------------------------------------------------- the statics are public
\* singularity_instance is a struct of namespace boost and instance_ptr a
\* public static member of it: code that is in no call can evaluate
\* boost::singularity_instance<T, M>::instance_ptr and holds what it reads.
ReadInstancePtr(t, T, M) ==
    /\ ~Running(t)
    /\ result' = [result EXCEPT ![t] =
                    [outcome |-> "instance_ptr", ref |-> instance_ptr[T][M]]]
    /\ UNCHANGED <<created, instance_ptr, lockable, heap, stack>>

\* Code of a thread that has made no call, and so was handed nothing, reads
\* the slot of a policy while no call is in progress.
SeqRead(t) ==
    /\ Quiescent
    /\ result[t] = NoResult
    /\ \E M \in Policies : ReadInstancePtr(t, "Horizon", M)

NextAccess == \E t \in Threads : SeqCreate(t) \/ SeqDestroy(t) \/ Step(t) \/ SeqRead(t)

SpecAccess == Init /\ [][NextAccess]_vars

\* --------------------------------------------- a constructor that may throw
\* Non-overlapping calls as in SpecSeq, for a managed type whose
\* construction may fail.
NextThrow ==
    \E t \in Threads : SeqCreate(t) \/ SeqDestroy(t) \/ Step(t) \/ ConstructorThrows(t)

SpecThrow == Init /\ [][NextThrow]_vars

\* ------------------------------------ a constructor that calls the mechanism
\* Storage that operator new has handed out and on which the constructor
\* has not finished: no T is alive in it yet.
RawCell == [FreeCell EXCEPT !.type = "raw"]

\* new T(...) of an outermost create(): operator new picks a free cell and
\* T's constructor, running on it, calls singularity<T, M2, A...>::create(args)
\* or ::destroy() for the same T. The outer call waits in line 137 for the
\* nested call, which starts at its own guard.
ConstructorCalls(t, op, M2, args) ==
    /\ At(t, "create", "new")
    /\ Len(stack[t]) = 1
    /\ \E a \in Addr :
        /\ heap[a] = FreeCell
        /\ heap' = [heap EXCEPT ![a] = RawCell]
        /\ stack' = [stack EXCEPT ![t] =
                        <<[Top(t) EXCEPT !.pc = "in_ctor", !.ref = a],
                          Frame(op, Top(t).T, M2, SigOf(args),
                                IF op = "create" THEN args ELSE <<>>)>>]
    /\ UNCHANGED <<created, instance_ptr, lockable, result>>

\* The nested call has ended and the constructor goes on. If the call
\* returned, the constructor finishes and the new-expression yields the
\* object; if it threw, the exception leaves the constructor, the
\* new-expression gives the storage back and the exception leaves create().
ConstructorResumes(t) ==
    /\ At(t, "create", "in_ctor")
    /\ IF result[t].outcome = "ok"
       THEN /\ heap' = [heap EXCEPT ![Top(t).ref] =
                            Construct(Top(t).T, ForwardArgs(Top(t).args))]
            /\ Goto(t, "store")
       ELSE /\ heap' = [heap EXCEPT ![Top(t).ref] = FreeCell]
            /\ stack' = SetTop(t, [Top(t) EXCEPT !.pc = "unguard",
                                                 !.exc = result[t].outcome,
                                                 !.ref = NULL])
    /\ UNCHANGED <<created, instance_ptr, lockable, result>>

\* lockable.lock() called by the thread that owns the mutex. boost::mutex
\* is not recursive and requires that the caller does not own it: the call
\* either never returns (GuardAcquire stays disabled) or, where the mutex
\* detects the relock, throws boost::lock_error. The guard was not
\* constructed, so nothing is unlocked; the exception arrives in the
\* constructor that made the call.
RelockFails(t) ==
    /\ Running(t) /\ Top(t).pc = "guard"
    /\ Top(t).M = "multi_threaded"
    /\ lockable[Top(t).T] = t
    /\ stack' = [stack EXCEPT ![t] = SubSeq(@, 1, Len(@) - 1)]
    /\ result' = [result EXCEPT ![t] = [outcome |-> "lock_error", ref |-> NULL]]
    /\ UNCHANGED <<created, instance_ptr, lockable, heap>>

\* Threads call create() for Horizon under multi_threaded whenever they
\* like, and Horizon's constructor calls create() or destroy() for Horizon
\* under multi_threaded.
ReenterMTCall(t) ==
    \E op \in {"create", "destroy"}, args \in MTArgLists :
        ConstructorCalls(t, op, "multi_threaded", args)

NextReenterMT ==
    \E t \in Threads :
        \/ MTCreate(t)
        \/ GuardAcquire(t)
        \/ DetectAlreadyCreated(t)
        \/ ReenterMTCall(t)
        \/ RelockFails(t)
        \/ ConstructorResumes(t)
        \/ GuardRelease(t)

SpecReenterMT == Init /\ [][NextReenterMT]_vars

\* Non-overlapping calls of create() for Horizon under single_threaded;
\* the constructor of the outermost call calls create() for Horizon under
\* single_threaded, and the constructor run by that nested call does not.
STCreate(t) ==
    /\ Quiescent
    /\ \E args \in MTArgLists : CallCreate(t, "Horizon", "single_threaded", args)

ReenterSTCall(t) ==
    \E args \in MTArgLists : ConstructorCalls(t, "create", "single_threaded", args)

NestedNew(t) == Len(stack[t]) = 2 /\ NewInstance(t)

NextReenterST ==
    \E t \in Threads :
        \/ STCreate(t)
        \/ GuardAcquire(t)
        \/ DetectAlreadyCreated(t)
        \/ ReenterSTCall(t)
        \/ NestedNew(t)
        \/ ConstructorResumes(t)
        \/ StoreInstance(t)
        \/ SetCreated(t)
        \/ ReturnInstance(t)
        \/ GuardRelease(t)

SpecReenterST == Init /\ [][NextReenterST]_vars

\* ------------------------------------------- the unsynchronized create() race
\* Calls t and u for the same type are not ordered by the mutex unless both
\* of them construct a multi_threaded guard.
Unordered(t, u) ==
    /\ t # u /\ Running(t) /\ Running(u)
    /\ Top(t).T = Top(u).T
    /\ ~(Top(t).M = "multi_threaded" /\ Top(u).M = "multi_threaded")

\* detect_already_created() of a call that races with the write
\* created = true of an unordered call: the read is a data race and may
\* yield the value from before the write as well as the value written
\* (DetectAlreadyCreated).
DetectRacingRead(t) ==
    /\ At(t, "create", "detect")
    /\ created[Top(t).T]
    /\ \E u \in Threads :
        /\ Unordered(t, u)
        /\ Top(u).op = "create" /\ Top(u).pc \in {"return", "unguard"}
        /\ Top(u).exc = "none"
    /\ Goto(t, "new")
    /\ UNCHANGED <<created, instance_ptr, lockable, heap, result>>

\* Every thread calls create() for Horizon once, under the policy it
\* likes, all starting from the initial state, in any interleaving.
UnsyncCreate(t) ==
    /\ result[t] = NoResult
    /\ \E M \in Policies, args \in MTArgLists : CallCreate(t, "Horizon", M, args)

NextUnsync ==
    \E t \in Threads :
        \/ UnsyncCreate(t)
        \/ GuardAcquire(t)
        \/ CreateStep(t)
        \/ DetectRacingRead(t)
        \/ GuardRelease(t)

SpecUnsync == Init /\ [][NextUnsync]_vars

\* ------------------------------------------------------ two managed types
\* Threads call create() and destroy() for Horizon and for Event under
\* either policy, through the signature without arguments. Calls under
\* multi_threaded overlap freely, for the same type and for different
\* types; a call under single_threaded overlaps no other call.
MayCall(t, M) ==
    \A u \in Threads \ {t} :
        Running(u) =>
            M = "multi_threaded" /\ Top(u).M = "multi_threaded"

TypesCreate(t) ==
    \E T \in Types, M \in Policies :
        /\ MayCall(t, M)
        /\ CallCreate(t, T, M, <<>>)

TypesDestroy(t) ==
    \E T \in Types, M \in Policies :
        MayCall(t, M) /\ CallDestroy(t, T, M, <<>>)

NextTypes == \E t \in Threads : TypesCreate(t) \/ TypesDestroy(t) \/ Step(t)

SpecTypes == Init /\ [][NextTypes]_vars

\* ================================================================= claims
Outcome(t) == result[t].outcome

\* C1: after any sequence of completed, non-overlapping create() and
\* destroy() calls for Horizon, under any mix of policies and signatures,
\* at most one Horizon is alive, and created is true exactly when one is.
C1_AtMostOneAndFlagExact ==
    Quiescent =>
        /\ Cardinality(Live("Horizon")) <= 1
        /\ created["Horizon"] <=> Live("Horizon") # {}

\* The instance a create() under multi_threaded returned is alive, and a
\* later create() has been refused.
C1_Witness ==
    /\ Quiescent
    /\ created["Horizon"]
    /\ \E t, u \in Threads :
        /\ Outcome(t) = "ok" /\ result[t].ref # NULL
        /\ result[t].ref = instance_ptr["Horizon"]["multi_threaded"]
        /\ Live("Horizon") = {result[t].ref}
        /\ Outcome(u) = "singularity_already_created"

\* C2: when every thread calls create() for Horizon once under
\* multi_threaded, then in every interleaving exactly one call succeeds,
\* all others fail with singularity_already_created, and exactly one
\* Horizon is alive afterwards.
RaceOver == \A t \in Threads : ~Running(t) /\ result[t] # NoResult

\* C2: once every racing create() has returned, exactly one succeeded, the
\* others got singularity_already_created, and one Horizon is alive.
C2_ExactlyOneSucceeds ==
    RaceOver =>
        /\ Cardinality({t \in Threads : Outcome(t) = "ok"}) = 1
        /\ \A t \in Threads : Outcome(t) \in {"ok", "singularity_already_created"}
        /\ Cardinality(Live("Horizon")) = 1

\* The race is over, and a thread that started while another was inside
\* create() has been refused.
C2_Witness ==
    /\ RaceOver
    /\ \E t \in Threads : Outcome(t) = "singularity_already_created"

\* Thread t takes the step: every statement of a call moves its frame.
Acts(t) == stack'[t] # stack[t]

SlotsEmpty(T) == \A M \in Policies : instance_ptr[T][M] = NULL

\* The state of a type before its first create().
AbsentState(T) == ~created[T] /\ SlotsEmpty(T) /\ Live(T) = {}

\* Live(T) and AbsentState(T) of the state a step leads to.
LiveNext(T) == {a \in Addr : heap'[a].type = T}

AbsentNext(T) ==
    /\ ~created'[T]
    /\ \A M \in Policies : instance_ptr'[T][M] = NULL
    /\ LiveNext(T) = {}

\* C3: a create() for Horizon called while created is true fails with
\* singularity_already_created, whatever its policy and signature, and
\* mutates no state: from the call to its end every statement of it leaves
\* the flag, every slot and the heap (so the existing instance) as they
\* were, and the caller gets the exception.
RefusedCreate(t) ==
    /\ Running(t) /\ Top(t).op = "create"
    /\ created[Top(t).T]
    /\ \/ Top(t).pc \in {"guard", "detect"} /\ Top(t).exc = "none"
       \/ Top(t).pc = "unguard" /\ Top(t).exc = "singularity_already_created"

\* C3: every step of a create() refused for created = true changes neither
\* flag, slots nor heap, and the call ends in singularity_already_created.
C3_AlreadyCreatedMutatesNothing ==
    [][\A t \in Threads :
        RefusedCreate(t) /\ Acts(t) =>
            /\ UNCHANGED <<created, instance_ptr, heap>>
            /\ IF Running(t)'
               THEN RefusedCreate(t)'
               ELSE /\ result'[t].outcome = "singularity_already_created"
                    /\ result'[t].ref = NULL]_vars

\* A create(5) under multi_threaded is leaving with the exception while
\* the instance made by create() under single_threaded is alive in its slot.
C3_Witness ==
    /\ created["Horizon"]
    /\ instance_ptr["Horizon"]["single_threaded"] # NULL
    /\ heap[instance_ptr["Horizon"]["single_threaded"]] = HorizonCtor(<<>>)
    /\ \E t \in Threads :
        /\ At(t, "create", "unguard")
        /\ Top(t).M = "multi_threaded"
        /\ Top(t).args = <<IntArg(5)>>
        /\ Top(t).exc = "singularity_already_created"

\* C4: a destroy() for Horizon called while created is false fails with
\* singularity_already_destroyed, whatever its policy and signature, and
\* mutates no state: the flag stays false and every slot stays empty.
RefusedDestroy(t) ==
    /\ Running(t) /\ Top(t).op = "destroy"
    /\ ~created[Top(t).T]
    /\ \/ Top(t).pc \in {"guard", "check_created"} /\ Top(t).exc = "none"
       \/ Top(t).pc = "unguard" /\ Top(t).exc = "singularity_already_destroyed"

\* C4: every step of a destroy() refused for created = false finds the
\* slots empty, changes nothing, and the call ends in
\* singularity_already_destroyed.
C4_AlreadyDestroyedMutatesNothing ==
    [][\A t \in Threads :
        RefusedDestroy(t) /\ Acts(t) =>
            /\ SlotsEmpty(Top(t).T)
            /\ UNCHANGED <<created, instance_ptr, heap>>
            /\ IF Running(t)'
               THEN RefusedDestroy(t)'
               ELSE result'[t].outcome = "singularity_already_destroyed"]_vars

\* A destroy() has been refused right after a successful destroy().
C4_Witness ==
    /\ Quiescent
    /\ ~created["Horizon"]
    /\ \E t, u \in Threads :
        /\ Outcome(t) = "ok" /\ result[t].ref = NULL
        /\ Outcome(u) = "singularity_already_destroyed"

\* C5: with Horizon created under policy A, a destroy() under the other
\* policy B fails with singularity_destroy_on_incorrect_threading and
\* mutates no state (the flag stays true, the slot of A keeps the live
\* instance, the slot of B stays empty, nothing is deallocated); a destroy()
\* under A, called with the instance in the slot of A, then succeeds.
WrongPolicyDestroy(t) ==
    /\ Running(t) /\ Top(t).op = "destroy"
    /\ created[Top(t).T]
    /\ instance_ptr[Top(t).T][Top(t).M] = NULL
    /\ \/ Top(t).pc \in {"guard", "check_created", "check_instance"} /\ Top(t).exc = "none"
       \/ Top(t).pc = "unguard"
          /\ Top(t).exc = "singularity_destroy_on_incorrect_threading"

RightPolicyDestroy(t) ==
    /\ Running(t) /\ Top(t).op = "destroy"
    /\ Top(t).exc = "none"
    /\ \/ /\ Top(t).pc \in {"guard", "check_created", "check_instance"}
          /\ created[Top(t).T]
          /\ instance_ptr[Top(t).T][Top(t).M] # NULL
       \/ Top(t).pc \in {"delete", "clear_instance", "clear_created", "unguard"}

\* C5: every step of a destroy() under the wrong policy changes nothing and
\* the call ends in singularity_destroy_on_incorrect_threading; a destroy()
\* under the policy whose slot holds the instance ends in success.
C5_WrongPolicyMutatesNothing ==
    [][\A t \in Threads :
        /\ WrongPolicyDestroy(t) /\ Acts(t) =>
            /\ \E A \in Policies \ {Top(t).M} :
                /\ instance_ptr[Top(t).T][A] # NULL
                /\ heap[instance_ptr[Top(t).T][A]].type = Top(t).T
            /\ UNCHANGED <<created, instance_ptr, heap>>
            /\ IF Running(t)'
               THEN WrongPolicyDestroy(t)'
               ELSE result'[t].outcome = "singularity_destroy_on_incorrect_threading"
        /\ RightPolicyDestroy(t) /\ Acts(t) =>
            IF Running(t)'
            THEN RightPolicyDestroy(t)'
            ELSE result'[t].outcome = "ok" /\ result'[t].ref = NULL]_vars

\* A destroy() was refused for the wrong policy and a destroy() of another
\* thread is succeeding under multi_threaded: it has deleted the instance.
C5_Witness ==
    \E t, u \in Threads :
        /\ Outcome(t) = "singularity_destroy_on_incorrect_threading"
        /\ At(u, "destroy", "unguard")
        /\ Top(u).M = "multi_threaded" /\ Top(u).exc = "none"
        /\ AbsentState("Horizon")

TopNext(t) == stack'[t][Len(stack'[t])]

\* C6: the lifecycle is repeatable. A successful destroy() leaves Horizon
\* as it was initially (flag false, every slot empty, no instance alive); a
\* create() called in that state succeeds, a destroy() under the policy
\* whose slot holds the instance succeeds, round after round; and each
\* create() constructs its instance in a cell that was free, from the
\* arguments of this call.
SucceedingCreate(t) ==
    /\ Running(t) /\ Top(t).op = "create"
    /\ Top(t).exc = "none"
    /\ \/ Top(t).pc \in {"guard", "detect"} /\ ~created[Top(t).T]
       \/ Top(t).pc \in {"new", "store", "set_created", "return", "unguard"}

\* C6: between calls, created = false means the initial state of the type;
\* create() from there and destroy() under the right policy run to success;
\* new T takes a free cell and constructs from the arguments of the call.
C6_LifecycleRepeats ==
    /\ [](Quiescent /\ ~created["Horizon"] => AbsentState("Horizon"))
    /\ [][\A t \in Threads :
        /\ SucceedingCreate(t) /\ Acts(t) =>
            IF Running(t)'
            THEN SucceedingCreate(t)'
            ELSE /\ result'[t].outcome = "ok"
                 /\ created'[Top(t).T]
                 /\ LiveNext(Top(t).T) = {result'[t].ref}
        /\ At(t, "create", "new") /\ Acts(t) =>
            /\ heap[TopNext(t).ref] = FreeCell
            /\ heap'[TopNext(t).ref] = Construct(Top(t).T, Top(t).args)
        /\ RightPolicyDestroy(t) /\ Acts(t) =>
            IF Running(t)'
            THEN RightPolicyDestroy(t)'
            ELSE /\ result'[t].outcome = "ok"
                 /\ AbsentNext(Top(t).T)]_vars

\* A destroy() has succeeded and a create(3) has succeeded after it: the
\* instance it returned is alive and holds 3.
C6_Witness ==
    /\ Quiescent
    /\ created["Horizon"]
    /\ \E t, u \in Threads :
        /\ Outcome(t) = "ok" /\ result[t].ref = NULL
        /\ Outcome(u) = "ok" /\ result[u].ref # NULL
        /\ heap[result[u].ref] = HorizonCtor(<<IntArg(3)>>)

\* C7: a successful create(args...) constructs the instance from exactly the
\* argument list supplied, in order and unchanged, for the arities 0, 1 and
\* 3 (int by value, Event by pointer, Event by reference), and returns a
\* reference to that instance, whose address is the one in the slot of its
\* policy.
HasArg(args, type) == \E i \in DOMAIN args : args[i].type = type

ArgOr(args, type, default) ==
    IF HasArg(args, type)
    THEN args[CHOOSE i \in DOMAIN args : args[i].type = type].val
    ELSE default

\* C7: at the return of a successful create() the reference is the address
\* in the slot and the fields of the object are the arguments supplied; the
\* caller receives that reference.
C7_ArgumentsForwarded ==
    /\ [](\A t \in Threads :
            At(t, "create", "unguard") /\ Top(t).exc = "none" =>
                /\ Top(t).ref # NULL
                /\ Top(t).ref = instance_ptr[Top(t).T][Top(t).M]
                /\ heap[Top(t).ref].type = "Horizon"
                /\ heap[Top(t).ref].mInt = ArgOr(Top(t).args, "int", 0)
                /\ heap[Top(t).ref].mEventPtr = ArgOr(Top(t).args, "Event*", OwnEvent)
                /\ heap[Top(t).ref].mEventRef = ArgOr(Top(t).args, "Event&", OwnEvent))
    /\ [][\A t \in Threads :
            At(t, "create", "unguard") /\ Top(t).exc = "none" /\ Acts(t) =>
                /\ result'[t].ref = Top(t).ref
                /\ UNCHANGED <<instance_ptr, heap>>]_vars

\* create(3, &event, event) has returned the instance in its slot, which
\* holds the three arguments.
C7_Witness ==
    /\ Quiescent
    /\ \E t \in Threads :
        /\ Outcome(t) = "ok" /\ result[t].ref # NULL
        /\ result[t].ref = instance_ptr["Horizon"]["single_threaded"]
        /\ heap[result[t].ref] =
            [type |-> "Horizon", mInt |-> 3, mEventPtr |-> 1, mEventRef |-> 1]

\* C8: under multi_threaded the lock of the type is released on every exit
\* path of create() and destroy(): a thread that is in no call owns no
\* lock, so a call that starts after the calls before it have returned
\* finds the lock of its type free.
C8_LockReleasedOnEveryExit ==
    /\ \A t \in Threads : ~Running(t) => \A T \in Types : lockable[T] # t
    /\ \A t \in Threads :
        Running(t) /\ Top(t).pc = "guard" => lockable[Top(t).T] = NoOwner

\* A destroy() has failed for the wrong policy and returned, and a later
\* call under multi_threaded of another thread has taken the lock.
C8_Witness ==
    \E t, u \in Threads :
        /\ Outcome(t) = "singularity_destroy_on_incorrect_threading"
        /\ ~Running(t)
        /\ instance_ptr["Horizon"]["single_threaded"] # NULL
        /\ Running(u) /\ Top(u).M = "multi_threaded" /\ Top(u).pc # "guard"
        /\ lockable["Horizon"] = u

\* C9: under multi_threaded the calls for Horizon are serialized: at most
\* one thread is between the construction and the destruction of its guard,
\* whatever the signatures of the calls, that thread owns the lock, and only
\* the owner of the lock writes created and instance_ptr.
InGuard(t, T) == Running(t) /\ Top(t).T = T /\ Top(t).pc # "guard"

\* C9: at most one thread is inside its guard for a type, it owns the lock,
\* and only steps of the lock owner write created and instance_ptr.
C9_CallsSerialized ==
    /\ [](\A T \in Types :
            /\ Cardinality({t \in Threads : InGuard(t, T)}) <= 1
            /\ \A t \in Threads : InGuard(t, T) => lockable[T] = t)
    /\ [][\A T \in Types :
            created'[T] # created[T] \/ instance_ptr'[T] # instance_ptr[T] =>
                \E t \in Threads : lockable[T] = t /\ Acts(t)]_vars

\* A create(3) waits for its guard while a create() of another signature is
\* about to set the flag.
C9_Witness ==
    \E t, u \in Threads :
        /\ At(t, "create", "set_created") /\ Top(t).sig = <<>>
        /\ At(u, "create", "guard") /\ Top(u).sig = <<"int">>
        /\ lockable["Horizon"] = t

\* C10: after a successful create() the instance is reachable only through
\* the reference create() returned: a thread holds the address of the live
\* Horizon only if a create() returned it to that thread; the mechanism
\* gives code that was not handed the reference no way to obtain it.
C10_ReachableOnlyThroughCreate ==
    \A t \in Threads :
        ~Running(t) /\ result[t].ref \in Live("Horizon") => Outcome(t) = "ok"

\* The policies whose slot for T holds an address.
FilledSlots(T) == {M \in Policies : instance_ptr[T][M] # NULL}

\* A destroy() for T stands between its write of the slot (line 166) and
\* its write of the flag (line 167).
BetweenDestroyWrites(T) ==
    \E t \in Threads : At(t, "destroy", "clear_created") /\ Top(t).T = T

\* C11 as stated: in every reachable state, the states between the writes
\* of create() and destroy() included, created[T] implies that exactly one
\* slot of T is non-empty.
C11_OneSlotInEveryState ==
    \A T \in Types : created[T] => Cardinality(FilledSlots(T)) = 1

\* C11: in every reachable state of non-overlapping calls in which no
\* destroy() stands between its two writes, created[T] implies that exactly
\* one slot of T is non-empty; it is the slot of the policy of the create()
\* that set the flag; and between the two writes of destroy() the flag is
\* still true while every slot is already empty.
C11_OneSlotOutsideDestroyWrites ==
    /\ \A T \in Types :
        created[T] =>
            IF BetweenDestroyWrites(T)
            THEN FilledSlots(T) = {}
            ELSE Cardinality(FilledSlots(T)) = 1
    /\ \A t \in Threads :
        At(t, "create", "return") => FilledSlots(Top(t).T) = {Top(t).M}

\* A destroy() under multi_threaded has deleted the instance and not yet
\* cleared the slot: the flag is true and the slot is the only one filled.
C11_Witness ==
    \E t \in Threads :
        /\ At(t, "destroy", "clear_instance")
        /\ Top(t).M = "multi_threaded"
        /\ created["Horizon"]
        /\ FilledSlots("Horizon") = {"multi_threaded"}

\* C12: the flag of a type changes only from false to true by a statement
\* of a create() and only from true to false by a statement of a destroy();
\* no create() clears it and no destroy() sets it; a create() that returns
\* a reference leaves it true and a destroy() that returns leaves it false;
\* a create() called with the flag true and a destroy() called with the
\* flag false end in an exception and change neither the flag nor a slot.
C12_OnlyCreateSetsOnlyDestroyClears ==
    [][/\ \A T \in Types :
            created'[T] # created[T] =>
                \E t \in Threads :
                    /\ Running(t) /\ Acts(t) /\ Top(t).T = T
                    /\ \/ Top(t).op = "create" /\ ~created[T] /\ created'[T]
                       \/ Top(t).op = "destroy" /\ created[T] /\ ~created'[T]
       /\ \A t \in Threads :
            Running(t) /\ Acts(t) =>
                /\ Top(t).op = "create" /\ created[Top(t).T] => created'[Top(t).T]
                /\ Top(t).op = "destroy" /\ ~created[Top(t).T] => ~created'[Top(t).T]
                /\ ~Running(t)' /\ result'[t].outcome = "ok" =>
                       created'[Top(t).T] = (Top(t).op = "create")
                /\ RefusedCreate(t) \/ RefusedDestroy(t) =>
                       /\ UNCHANGED <<created, instance_ptr>>
                       /\ Running(t)' =>
                            IF Top(t).op = "create"
                            THEN RefusedCreate(t)' ELSE RefusedDestroy(t)'
                       /\ ~Running(t)' =>
                            result'[t].outcome =
                                IF Top(t).op = "create"
                                THEN "singularity_already_created"
                                ELSE "singularity_already_destroyed"]_vars

\* The flag went false -> true -> false (a destroy() has returned), and a
\* second destroy() is leaving with singularity_already_destroyed.
C12_Witness ==
    \E t, u \in Threads :
        /\ At(t, "destroy", "unguard")
        /\ Top(t).exc = "singularity_already_destroyed"
        /\ ~created["Horizon"]
        /\ Outcome(u) = "ok" /\ result[u].ref = NULL

\* The signatures whose constructor yields the object at address p.
MakerSigs(T, p) == {SigOf(a) : a \in {b \in ArgLists(T) : heap[p] = Construct(T, b)}}

\* A destroy() through a signature other than the one that created the
\* instance, under the policy whose slot holds it.
OtherSignatureDestroy(t) ==
    /\ Running(t) /\ Top(t).op = "destroy"
    /\ Top(t).exc = "none"
    /\ \/ /\ Top(t).pc \in {"guard", "check_created", "check_instance"}
          /\ created[Top(t).T]
          /\ instance_ptr[Top(t).T][Top(t).M] # NULL
          /\ Top(t).sig \notin MakerSigs(Top(t).T, instance_ptr[Top(t).T][Top(t).M])
       \/ Top(t).pc \in {"delete", "clear_instance", "clear_created", "unguard"}

\* C18: the slot is keyed by type and policy, not by signature: a destroy()
\* called through a signature S2 while the slot of its policy holds an
\* instance constructed through another signature S1 passes both tests,
\* deletes that instance and returns normally, leaving the flag false and
\* every slot empty.
C18_DestroyThroughAnySignature ==
    [][\A t \in Threads :
        OtherSignatureDestroy(t) /\ Acts(t) =>
            /\ Top(t).pc = "delete" =>
                   /\ heap[instance_ptr[Top(t).T][Top(t).M]].type = Top(t).T
                   /\ LiveNext(Top(t).T) = {}
            /\ IF Running(t)'
               THEN OtherSignatureDestroy(t)'
               ELSE /\ result'[t].outcome = "ok"
                    /\ AbsentNext(Top(t).T)]_vars

\* destroy() through singularity<Horizon, multi_threaded, int> has passed
\* both tests and is about to delete the instance that create() without
\* arguments constructed.
C18_Witness ==
    \E t \in Threads :
        /\ At(t, "destroy", "delete")
        /\ Top(t).M = "multi_threaded" /\ Top(t).sig = <<"int">>
        /\ instance_ptr["Horizon"]["multi_threaded"] # NULL
        /\ heap[instance_ptr["Horizon"]["multi_threaded"]] = HorizonCtor(<<>>)

\* The type of the call in which thread t takes the step.
ActingType(t) == IF Running(t) THEN Top(t).T ELSE TopNext(t).T

\* C19: managed types are independent. A step of a call for T, successful
\* or failing, leaves the flag, every slot, the lock and the instances of
\* every other type U unchanged; and a call for U waiting at its guard can
\* take the lock whenever the lock of U is free, whoever holds the lock of
\* another type.
C19_TypesIndependent ==
    /\ [][\A t \in Threads :
            Acts(t) =>
                \A U \in Types \ {ActingType(t)} :
                    /\ created'[U] = created[U]
                    /\ instance_ptr'[U] = instance_ptr[U]
                    /\ lockable'[U] = lockable[U]
                    /\ LiveNext(U) = Live(U)
                    /\ \A a \in Live(U) : heap'[a] = heap[a]]_vars
    /\ [](\A t \in Threads :
            /\ Running(t) /\ Top(t).pc = "guard"
            /\ Top(t).M = "multi_threaded" => lockable[Top(t).T] = NoOwner
            => ENABLED GuardAcquire(t))

\* One thread is inside create() for Horizon holding Horizon's lock while
\* another has taken Event's lock and is inside destroy() for Event.
C19_Witness ==
    \E t, u \in Threads :
        /\ At(t, "create", "set_created") /\ Top(t).T = "Horizon"
        /\ lockable["Horizon"] = t
        /\ At(u, "destroy", "clear_instance") /\ Top(u).T = "Event"
        /\ lockable["Event"] = u

\* A create() that has read created = false.
PastDetection(t) ==
    /\ Running(t) /\ Top(t).op = "create" /\ Top(t).exc = "none"
    /\ Top(t).pc \in {"new", "store", "set_created", "return", "unguard"}

\* C13: single_threaded gives no protection and the lock of multi_threaded
\* does not exclude a single_threaded caller. The guard of a call under
\* single_threaded never waits, whoever holds the lock; two calls are past
\* the detection together only if one of them is single_threaded; a
\* create() that has read created = false allocates its instance and
\* returns normally whatever the other calls do; so when every racing
\* create() has returned, as many Horizons are alive as calls succeeded.
C13_NoExclusionOfUnsynchronized ==
    /\ [](\A t \in Threads :
            Running(t) /\ Top(t).pc = "guard" /\ Top(t).M = "single_threaded"
                => ENABLED GuardAcquire(t))
    /\ [](\A t, u \in Threads :
            t # u /\ PastDetection(t) /\ PastDetection(u) => Unordered(t, u))
    /\ [](RaceOver =>
            Cardinality(Live("Horizon")) =
                Cardinality({t \in Threads : Outcome(t) = "ok"}))
    /\ [][\A t \in Threads :
            PastDetection(t) /\ Acts(t) =>
                /\ Top(t).pc = "new" =>
                       Cardinality(LiveNext("Horizon")) =
                           Cardinality(Live("Horizon")) + 1
                /\ IF Running(t)'
                   THEN PastDetection(t)'
                   ELSE result'[t].outcome = "ok" /\ result'[t].ref # NULL]_vars

\* A create() under single_threaded and a create() under multi_threaded
\* overlapped, both read created = false and both returned normally: two
\* Horizons are allocated, one in each slot.
C13_Witness ==
    /\ RaceOver
    /\ Cardinality(Live("Horizon")) = 2
    /\ \E t, u \in Threads :
        /\ t # u
        /\ Outcome(t) = "ok" /\ result[t].ref = instance_ptr["Horizon"]["single_threaded"]
        /\ Outcome(u) = "ok" /\ result[u].ref = instance_ptr["Horizon"]["multi_threaded"]
        /\ result[t].ref # result[u].ref

\* A create() that the exception of new T(...) is leaving.
ThrownCreate(t) ==
    At(t, "create", "unguard") /\ Top(t).exc = "constructor_exception"

\* C14: when new T(...) throws inside create(), the statement changes
\* neither the flag, a slot nor the heap; while the exception leaves the
\* call the type is in its initial state (flag false, every slot empty, no
\* instance alive); the guard is released on the way out, so the caller
\* gets the exception with the lock of the type free; and the next call
\* finds the lock free and the flag false, so a create() is legal.
C14_ThrowingConstructorLeavesAbsent ==
    /\ [](\A t \in Threads : ThrownCreate(t) => AbsentState(Top(t).T))
    /\ [](\A t \in Threads :
            Outcome(t) = "constructor_exception" /\ Quiescent =>
                \A T \in Types : lockable[T] = NoOwner)
    /\ [][\A t \in Threads :
            /\ At(t, "create", "new") /\ Acts(t) /\ TopNext(t).exc # "none" =>
                /\ UNCHANGED <<created, instance_ptr, lockable, heap>>
                /\ ThrownCreate(t)'
            /\ ThrownCreate(t) /\ Acts(t) =>
                /\ ~Running(t)'
                /\ result'[t] = [outcome |-> "constructor_exception", ref |-> NULL]
                /\ lockable'[Top(t).T] = NoOwner
                /\ AbsentNext(Top(t).T)
            /\ Outcome(t) = "constructor_exception" /\ ~created["Horizon"] =>
                \A u \in Threads :
                    At(u, "create", "detect") /\ Acts(u) => TopNext(u).pc = "new"]_vars

\* A create() under multi_threaded ended with the exception of the
\* constructor, and the create() called after it has returned an instance.
C14_Witness ==
    /\ Quiescent
    /\ created["Horizon"]
    /\ \E t, u \in Threads :
        /\ Outcome(t) = "constructor_exception"
        /\ Outcome(u) = "ok" /\ result[u].ref # NULL
        /\ result[u].ref = instance_ptr["Horizon"]["multi_threaded"]
        /\ Live("Horizon") = {result[u].ref}

\* Thread t is in a call made by the constructor of its outer create().
Nested(t) == Len(stack[t]) = 2

C16_NestedCreateNotRejected ==
    /\ [](\A t \in Threads :
            Nested(t) /\ Top(t).pc \in {"guard", "detect"} => ~created[Top(t).T])
    /\ [](\A t \in Threads :
            At(t, "create", "unguard") /\ ~Nested(t) /\ Top(t).exc = "none" =>
                /\ Cardinality(Live(Top(t).T)) = 2
                /\ created[Top(t).T]
                /\ FilledSlots(Top(t).T) = {Top(t).M}
                /\ instance_ptr[Top(t).T][Top(t).M] = Top(t).ref)
    /\ [](Quiescent /\ created["Horizon"] =>
            /\ Cardinality(Live("Horizon")) = 2
            /\ Cardinality(FilledSlots("Horizon")) = 1)
    /\ [][\A t \in Threads :
            /\ Nested(t) /\ Acts(t) =>
                IF Nested(t)'
                THEN SucceedingCreate(t)'
                ELSE /\ result'[t].outcome = "ok"
                     /\ created'[Top(t).T]
                     /\ result'[t].ref = instance_ptr'[Top(t).T][Top(t).M]
                     /\ LiveNext(Top(t).T) = {result'[t].ref}
            /\ At(t, "create", "in_ctor") /\ ~Nested(t) /\ Acts(t) =>
                /\ TopNext(t).pc = "store"
                /\ LiveNext(Top(t).T) = Live(Top(t).T) \cup {Top(t).ref}
                /\ Top(t).ref \notin Live(Top(t).T)]_vars

\* The outer create() has returned its instance, which is in the slot,
\* while the instance that the nested create(3) constructed is still
\* allocated and no slot refers to it.
C16_Witness ==
    /\ Quiescent
    /\ created["Horizon"]
    /\ \E t \in Threads, a \in Addr :
        /\ Outcome(t) = "ok"
        /\ result[t].ref = instance_ptr["Horizon"]["single_threaded"]
        /\ heap[result[t].ref] = HorizonCtor(<<>>)
        /\ a # result[t].ref
        /\ heap[a] = HorizonCtor(<<IntArg(3)>>)

\* The outcomes a call can end with.
Outcomes ==
    {"ok", "singularity_already_created", "singularity_already_destroyed",
     "singularity_destroy_on_incorrect_threading"}

\* C17: with every caller under multi_threaded and a constructor and
\* destructor that do not call back, no deadlock is reachable (while a
\* call is in progress some thread in a call can take a step), every call
\* ends by returning or with one of the three exceptions, and under fair
\* lock acquisition every create() and destroy() that was called
\* eventually ends.
C17_EveryCallCompletes ==
    /\ []((\E t \in Threads : Running(t)) =>
            \E t \in Threads : Running(t) /\ ENABLED Step(t))
    /\ [][\A t \in Threads :
            Running(t) /\ ~Running(t)' => result'[t].outcome \in Outcomes]_vars
    /\ \A t \in Threads : Running(t) ~> ~Running(t)

\* A destroy() waits at its guard while a create() of another thread is
\* inside its guard, after an earlier call was refused.
C17_Witness ==
    \E t, u \in Threads :
        /\ At(t, "destroy", "guard")
        /\ At(u, "create", "unguard")
        /\ Top(u).exc = "singularity_already_created"
        /\ lockable["Horizon"] = u

====
